---- MODULE Spec2Model ----
(***************************************************************************)
(* Batoko Chautari, static/js/main.js: the weather module                  *)
(* (BatokoChautari.modules.weather) as a state machine.                    *)
(*                                                                         *)
(* State: the module's cache (a Map from the key string to {data,          *)
(* timestamp}), the calls of fetchWeather whose network call is in flight, *)
(* what each widget shows, the interval timers registered with             *)
(* setInterval, and the clock Date.now() reads.  The browser runs one task *)
(* at a time; a promise's callbacks run as microtasks right after the task *)
(* that settled it, so a whole .then/.catch chain is one step.  A timer's  *)
(* callback runs at the instant the timer is due.                          *)
(*                                                                         *)
(* History kept for the properties: `last` holds the calls the last step   *)
(* made or settled, `refreshed` the run and fetch of each widget's last    *)
(* settled refresh, `first` a payload a caller has kept.                   *)
(*                                                                         *)
(* The timer utilities and the modules built on setTimeout follow, each    *)
(* with a specification of its own: utils.debounce, utils.throttle, the    *)
(* submit listener of formValidation, and notifications.show / hide.       *)
(* Their one-shot timers are the set `timeouts`; `hist` holds what the     *)
(* properties remember of the calls made to the module under study.        *)
(***************************************************************************)
EXTENDS Integers, Sequences, FiniteSets, TLC

\* ------------------------------------------------------------------------
\* Bounds of the model
\* ------------------------------------------------------------------------
\* Instants the clock runs through (see TimePoints).
MaxInstants == 3
\* Network calls of callers other than widgets that are in flight together.
MaxInFlight == 2
\* Calls the page makes to the utility or module under study (calls of a
\* debounced or throttled function, submit events, notifications shown and
\* hidden).
MaxCalls == 4

\* ------------------------------------------------------------------------
\* Program constants
\* ------------------------------------------------------------------------
\* config.weatherUpdateInterval
weatherUpdateInterval == 300000
\* The literal in fetchWeather's freshness test.
CacheTTL == 300000
\* config.debounceDelay, the wait of the debounced search.
debounceDelay == 250
\* The limit of the throttled scroll listener of setupBackToTop.
scrollLimit == 100
\* The delay after which the submit listener resets a form.
submitResetDelay == 5000
\* The default duration of a notification, and the delay after which hide
\* takes the element out of the container.
defaultDuration == 5000
removeDelay == 150
\* Coordinates are decimal numbers; they are held as integers in units of
\* 1/Scale (two decimal places).
Scale == 10 * 10

\* ------------------------------------------------------------------------
\* Strings are sequences of one-character strings.
\* ------------------------------------------------------------------------
DigitVal ==
  [c \in {"0", "1", "2", "3", "4", "5", "6", "7", "8", "9"} |->
     CASE c = "0" -> 0 [] c = "1" -> 1 [] c = "2" -> 2 [] c = "3" -> 3
       [] c = "4" -> 4 [] c = "5" -> 5 [] c = "6" -> 6 [] c = "7" -> 7
       [] c = "8" -> 8 [] c = "9" -> 9]

DigitChar == <<"0", "1", "2", "3", "4", "5", "6", "7", "8", "9">>

IsDigit(c) == c \in DOMAIN DigitVal

\* A JavaScript number: NaN, or the decimal v / Scale.
NaN == [nan |-> TRUE, v |-> 0]

Num(v) == [nan |-> FALSE, v |-> v]

\* The run of digits of s from position i on: v their value, n how many, i the
\* position after them.
RECURSIVE IntPart(_, _, _)
IntPart(s, i, acc) ==
  IF i <= Len(s) /\ IsDigit(s[i])
  THEN IntPart(s, i + 1,
               [v |-> acc.v * 10 + DigitVal[s[i]], n |-> acc.n + 1, i |-> i + 1])
  ELSE acc

\* The fraction digits of s from position i on, in units of 1/Scale; w is the
\* weight of the next digit (digits past the model's precision weigh 0).
RECURSIVE FracPart(_, _, _, _)
FracPart(s, i, w, acc) ==
  IF i <= Len(s) /\ IsDigit(s[i])
  THEN FracPart(s, i + 1, w \div 10,
                [v |-> acc.v + w * DigitVal[s[i]], n |-> acc.n + 1])
  ELSE acc

\* parseFloat(string): an optional sign, digits, an optional fraction; parsing
\* stops at the first character that fits no more, and the result is NaN when no
\* digit was read.
parseFloat(s) ==
  LET neg == Len(s) >= 1 /\ s[1] = "-"
      pos == Len(s) >= 1 /\ s[1] = "+"
      start == IF neg \/ pos THEN 2 ELSE 1
      ip == IntPart(s, start, [v |-> 0, n |-> 0, i |-> start])
      hasDot == ip.i <= Len(s) /\ s[ip.i] = "."
      fp == IF hasDot
            THEN FracPart(s, ip.i + 1, Scale \div 10, [v |-> 0, n |-> 0])
            ELSE [v |-> 0, n |-> 0]
      mag == ip.v * Scale + fp.v
  IN  IF ip.n = 0 /\ fp.n = 0 THEN NaN
      ELSE IF neg THEN Num(0 - mag) ELSE Num(mag)

RECURSIVE NatToString(_)
NatToString(n) ==
  IF n < 10 THEN <<DigitChar[n + 1]>>
  ELSE NatToString(n \div 10) \o <<DigitChar[(n % 10) + 1]>>

\* String(number), as a template literal `${x}` formats it: the shortest decimal
\* that reads back as the number.
NumberToString(x) ==
  IF x.nan THEN <<"N", "a", "N">>
  ELSE LET mag == IF x.v < 0 THEN 0 - x.v ELSE x.v
           whole == mag \div Scale
           frac == mag % Scale
           d1 == frac \div 10
           d2 == frac % 10
           fracStr == IF frac = 0 THEN <<>>
                      ELSE IF d2 = 0 THEN <<".", DigitChar[d1 + 1]>>
                      ELSE <<".", DigitChar[d1 + 1], DigitChar[d2 + 1]>>
       IN  (IF x.v < 0 THEN <<"-">> ELSE <<>>) \o NatToString(whole) \o fracStr

\* Mutant of cacheKey: the numbers are rounded down to one decimal place before
\* they are formatted.
cacheKey_Rounded(lat, lon) ==
  NumberToString(IF lat.nan THEN lat ELSE Num(lat.v - (lat.v % 10)))
  \o <<",">>
  \o NumberToString(IF lon.nan THEN lon ELSE Num(lon.v - (lon.v % 10)))

\* const cacheKey = `${lat},${lon}`
cacheKey(lat, lon) == NumberToString(lat) \o <<",">> \o NumberToString(lon)

\* ------------------------------------------------------------------------
\* The data a response body parses to, and what renderWeather reads of it
\* ------------------------------------------------------------------------
\* JSON null.
NullData == [null |-> TRUE, error |-> FALSE, current |-> 0]
\* An object with a truthy `error` field, such as {error: true}.
ErrorData == [null |-> FALSE, error |-> TRUE, current |-> 0]
\* An object with neither `error` nor `current`, such as {forecast: []}.
NoCurrentData == [null |-> FALSE, error |-> FALSE, current |-> 0]
\* A WeatherPayload; v tells one payload from another.
Payload(v) == [null |-> FALSE, error |-> FALSE, current |-> v]

\* What the endpoint may answer to one request: the network call fails
\* (net = FALSE), or a response arrives with a success status or not (ok) and a
\* body that is JSON or not (json), parsing to data.
Response(net, ok, json, data) ==
  [net |-> net, ok |-> ok, json |-> json, data |-> data]

NetworkFailure == Response(FALSE, FALSE, FALSE, NullData)

Responses ==
  {NetworkFailure}
  \cup {Response(TRUE, TRUE, TRUE, d) :
          d \in {Payload(1), Payload(2), NoCurrentData, NullData}}
  \cup {Response(TRUE, TRUE, FALSE, NullData)}
  \cup {Response(TRUE, FALSE, TRUE, d) : d \in {Payload(1), ErrorData}}

\* ------------------------------------------------------------------------
\* The page: its weather widgets in document order, each with the two data
\* attributes loadWeatherData reads.
\* ------------------------------------------------------------------------
Widget(latAttr, lonAttr) == [weatherLat |-> latAttr, weatherLon |-> lonAttr]

Pages ==
  { <<Widget(<<"0">>, <<"0">>), Widget(<<"2", "7", ".", "7">>, <<"8", "5", ".", "3">>)>>,
    <<Widget(<<"2", "7", ".", "7">>, <<"8", "5", ".", "3">>),
      Widget(<<"2", "7", ".", "7", "0">>, <<"8", "5", ".", "3", "0">>)>> }

\* The coordinates a caller other than a widget passes to fetchWeather.
DirectCoords == { <<Num(2770), Num(8530)>> }

\* A page without weather widgets.
NoWidgets == <<>>

\* A page whose scripts add a widget after startup: the widgets it is loaded
\* with, and the widgets a script may insert later, each once.
StartPage == <<Widget(<<"2", "7", ".", "7">>, <<"8", "5", ".", "3">>)>>

LateWidgets == {Widget(<<"0">>, <<"0">>)}

\* Pages of two widgets whose coordinate attributes are written in different
\* ways: with and without a trailing zero or a sign, differing in the second
\* decimal place, zero and minus zero, and text that is no number.  LatAttrs are
\* the latitudes written next to the latitude 27.7.
LatAttrs ==
  { <<"2", "7", ".", "7", "0">>, <<"+", "2", "7", ".", "7">>,
    <<"2", "7", ".", "7", "1">>, <<"0">>, <<"x">> }

KeyPages ==
  { <<Widget(a, <<"8", "5", ".", "3">>),
      Widget(<<"2", "7", ".", "7">>, <<"8", "5", ".", "3">>)>> : a \in LatAttrs }
  \cup { <<Widget(<<"-", "0">>, <<"8", "5", ".", "3">>),
           Widget(<<"0">>, <<"8", "5", ".", "3", "0">>)>> }

\* The instants the clock stops at, the first MaxInstants of 0, I - 1, I,
\* 2I - 1, 2I, ... for the interval I: every multiple of the interval and the
\* millisecond before it.
TimePoints ==
  {((j + 1) \div 2) * weatherUpdateInterval - (j % 2) : j \in 0..(MaxInstants - 1)}

VARIABLES
  now,          \* what Date.now() returns, counted from the page's load
  page,         \* the page's widgets
  initialized,  \* DOMContentLoaded has run the module's init
  cache,        \* weather.cache: key -> [data, timestamp]
  pending,      \* the calls of fetchWeather whose network call is in flight
  display,      \* what each widget shows
  timers,       \* the due time of every interval registered with setInterval
  refreshRuns,  \* how many times loadWeatherData has run
  pageErrors,   \* 'error' and 'unhandledrejection' events the page has handled
  last,         \* the calls of fetchWeather made or settled by the last step
  refreshed,    \* per widget, the run and fetch of the refresh that last settled
  first,        \* a payload a caller of fetchWeather has kept
  timeouts,     \* the callbacks registered with setTimeout that are yet to run
  timerIds,     \* how many timer ids setTimeout has handed out
  timeout,      \* debounce: the closure's `timeout`, a timer id (0: undefined)
  inThrottle,   \* throttle: the closure's `inThrottle`
  submitting,   \* per form, dataset.submitting
  notifications, \* state.notifications
  container,    \* the notification elements in the container, by id
  hist          \* what the properties remember of the calls made so far

vars ==
  <<now, page, initialized, cache, pending, display, timers, refreshRuns,
    pageErrors, last, refreshed, first, timeouts, timerIds, timeout,
    inThrottle, submitting, notifications, container, hist>>

\* The state of the utilities and of the modules built on them.
utilVars ==
  <<timeouts, timerIds, timeout, inThrottle, submitting, notifications,
    container, hist>>

\* The state of the weather module.
weatherVars ==
  <<page, initialized, cache, pending, display, timers, refreshRuns,
    pageErrors, last, refreshed, first>>

\* ------------------------------------------------------------------------
\* Promises
\* ------------------------------------------------------------------------
Pending == [st |-> "pending", val |-> NullData]
Fulfilled(d) == [st |-> "fulfilled", val |-> d]
Rejected == [st |-> "rejected", val |-> NullData]

\* ------------------------------------------------------------------------
\* fetchWeather
\* ------------------------------------------------------------------------
\* Mutants of isFresh: a time-to-live of 30000, and an inclusive comparison.
isFresh_ShortTTL(entry, t) == (t - entry.timestamp) * 10 < CacheTTL

isFresh_Inclusive(entry, t) == (t - entry.timestamp) <= CacheTTL

\* (Date.now() - cached.timestamp) < 300000
isFresh(entry, t) == (t - entry.timestamp) < CacheTTL

\* cached && (Date.now() - cached.timestamp) < 300000
cacheHit(key) == key \in DOMAIN cache /\ isFresh(cache[key], now)

\* Mutants of cacheSet: an entry that exists is kept, and the entries of the
\* other keys are dropped.
cacheSet_Evict(c, key, entry) == [k \in {key} |-> entry]

cacheSet_KeepFirst(c, key, entry) ==
  [k \in (DOMAIN c) \cup {key} |-> IF k \in DOMAIN c THEN c[k] ELSE entry]

\* this.cache.set(cacheKey, entry)
cacheSet(c, key, entry) ==
  [k \in (DOMAIN c) \cup {key} |-> IF k = key THEN entry ELSE c[k]]

\* fetch(url).then(response => response.json()): fetch rejects when the network
\* call fails and resolves with the response whatever its status is; json()
\* rejects when the body is not JSON and resolves with the parsed body otherwise.
fetchJson(resp) ==
  IF ~resp.net THEN Rejected
  ELSE IF ~resp.json THEN Rejected
  ELSE Fulfilled(resp.data)

Initial == [html |-> "initial", current |-> 0]
Unavailable == [html |-> "unavailable", current |-> 0]
Weather(v) == [html |-> "weather", current |-> v]

\* How many network calls a call of fetchWeather issues: none on a cache hit,
\* one otherwise, whatever else is in flight.
networkCalls(key) == IF cacheHit(key) THEN 0 ELSE 1

\* A call fetchWeather(lat, lon) as it returns: the promise is resolved with the
\* cached data on a hit, and pending on one network call otherwise.  caller is
\* the widget's position on the page, or 0 for any other caller; run is the run
\* of loadWeatherData that made the call (0: none).  The record keeps, later,
\* the response and what became of it, whether the response of another call for
\* the key was stored while this one was in flight (overlapped), and whether
\* that was the payload of a fetch that succeeded for a call made after this one
\* (overtaken).
Request(caller, lat, lon, run) ==
  LET key == cacheKey(lat, lon)
      hit == cacheHit(key)
  IN  [caller |-> caller, lat |-> lat, lon |-> lon, key |-> key, run |-> run,
       issuedAt |-> now,
       net |-> networkCalls(key),
       promise |-> IF hit THEN Fulfilled(cache[key].data) ELSE Pending,
       hasResponse |-> FALSE,
       response |-> NetworkFailure,
       stored |-> FALSE,
       overlapped |-> FALSE,
       overtaken |-> FALSE,
       chainSt |-> "none",
       renderThrew |-> FALSE,
       left |-> Initial]

\* ------------------------------------------------------------------------
\* renderWeather and the chain loadWeatherData hangs on fetchWeather's promise
\* ------------------------------------------------------------------------
\* renderWeather(widget, data), the widget showing `shown` before: the fallback
\* for !data || data.error; otherwise the template reads data.current.icon,
\* which throws a TypeError when data.current is undefined, before innerHTML is
\* assigned.
renderWeather(shown, data) ==
  IF data.null \/ data.error THEN [threw |-> FALSE, display |-> Unavailable]
  ELSE IF data.current = 0 THEN [threw |-> TRUE, display |-> shown]
  ELSE [threw |-> FALSE, display |-> Weather(data.current)]

\* .then(data => { this.renderWeather(widget, data); })
thenRender(p, shown) ==
  IF p.st = "rejected"
  THEN [st |-> "rejected", display |-> shown, threw |-> FALSE]
  ELSE LET r == renderWeather(shown, p.val)
       IN  [st |-> IF r.threw THEN "rejected" ELSE "fulfilled",
            display |-> r.display, threw |-> r.threw]

\* .catch(error => { widget.innerHTML = '...Weather data unavailable...'; })
catchFallback(q) ==
  IF q.st = "rejected"
  THEN [st |-> "fulfilled", display |-> Unavailable, threw |-> q.threw]
  ELSE q

\* fetchWeather(lat, lon).then(...).catch(...), once fetchWeather's promise p
\* has settled.
widgetChain(p, shown) == catchFallback(thenRender(p, shown))

\* The record of call r once its promise has settled: for a widget's call the
\* chain has run, and shown is what the widget showed before.
Settled(r, shown) ==
  IF r.caller = 0 \/ r.promise.st = "pending" THEN r
  ELSE LET c == widgetChain(r.promise, shown)
       IN  [r EXCEPT !.chainSt = c.st, !.renderThrew = c.threw, !.left = c.display]

\* The pending calls among a sequence of calls, in order.
RECURSIVE StillPending(_)
StillPending(rs) ==
  IF rs = <<>> THEN <<>>
  ELSE (IF Head(rs).promise.st = "pending" THEN <<Head(rs)>> ELSE <<>>)
       \o StillPending(Tail(rs))

\* The fetch of a response failed: the network call failed, or the endpoint
\* answered with a non-success status.
FetchFailed(resp) == ~resp.net \/ ~resp.ok

\* The fetch of a response succeeded with a WeatherPayload.
FetchSucceeded(resp) ==
  resp.net /\ resp.ok /\ resp.json /\ ~resp.data.null /\ ~resp.data.error
  /\ resp.data.current # 0

\* What is remembered of a settled refresh of a widget: the run of
\* loadWeatherData it belongs to, and whether its fetch failed or succeeded with
\* which payload ("hit": no fetch was made; "other": a success status with a body
\* that is no WeatherPayload).
Refreshed(r) ==
  [run |-> r.run,
   fetch |-> IF ~r.hasResponse THEN "hit"
             ELSE IF FetchFailed(r.response) THEN "failed"
             ELSE IF FetchSucceeded(r.response) THEN "succeeded"
             ELSE "other",
   current |-> IF r.hasResponse /\ FetchSucceeded(r.response)
               THEN r.response.data.current ELSE 0]

NotHeld ==
  [held |-> FALSE, key |-> <<>>, issuedAt |-> 0, value |-> NullData,
   overwritten |-> FALSE]

\* ------------------------------------------------------------------------
\* loadWeatherData: for each widget in document order, parse its coordinates,
\* call fetchWeather and hang the render chain on the promise.  All the calls
\* are made before any callback runs; the chains of the cache hits run as
\* microtasks when the loop has ended.
\* ------------------------------------------------------------------------
widgetLat(w) == parseFloat(page[w].weatherLat)
widgetLon(w) == parseFloat(page[w].weatherLon)

\* Mutant of weatherWidgets: the widgets the page was loaded with.
weatherWidgets_AtInit(p) == 1..Len(StartPage)

\* document.querySelectorAll('[data-weather-lat][data-weather-lon]'), evaluated
\* by every run of loadWeatherData: the widgets on the page p at that moment.
weatherWidgets(p) == DOMAIN p

loadWeatherData ==
  LET ws == weatherWidgets(page)
      run == refreshRuns + 1
      batch == [w \in ws |->
                  Settled(Request(w, widgetLat(w), widgetLon(w), run), display[w])]
  IN  /\ pending' = pending \o StillPending(batch)
      /\ last' = batch
      /\ display' = [w \in DOMAIN page |->
                       IF w \in ws /\ batch[w].promise.st # "pending"
                       THEN batch[w].left ELSE display[w]]
      /\ refreshed' = [w \in DOMAIN page |->
                         IF w \in ws /\ batch[w].promise.st # "pending"
                         THEN Refreshed(batch[w]) ELSE refreshed[w]]
      /\ refreshRuns' = run
      /\ pageErrors' =
           pageErrors + Cardinality({w \in ws : batch[w].chainSt = "rejected"})

\* Mutants of setupPeriodicUpdates: the interval is registered twice, and the
\* interval is registered without its delay.
setupPeriodicUpdates_Twice(ts) ==
  Append(Append(ts, now + weatherUpdateInterval), now + weatherUpdateInterval)

setupPeriodicUpdates_NoDelay(ts) == Append(ts, now)

\* setInterval(() => { this.loadWeatherData(); }, weatherUpdateInterval)
setupPeriodicUpdates(ts) == Append(ts, now + weatherUpdateInterval)

\* ------------------------------------------------------------------------
\* Pages on which the utilities are not in use, and pages without weather
\* widgets on which DOMContentLoaded has not run the weather module.
\* ------------------------------------------------------------------------
NoHist == [n |-> 0]

NoUtilities ==
  /\ timeouts = {}
  /\ timerIds = 0
  /\ timeout = 0
  /\ inThrottle = FALSE
  /\ submitting = <<>>
  /\ notifications = <<>>
  /\ container = <<>>
  /\ hist = NoHist

NoWeather ==
  /\ page = NoWidgets
  /\ initialized = FALSE
  /\ cache = [k \in {} |-> [data |-> NullData, timestamp |-> 0]]
  /\ pending = <<>>
  /\ display = <<>>
  /\ timers = <<>>
  /\ refreshRuns = 0
  /\ pageErrors = 0
  /\ last = <<>>
  /\ refreshed = <<>>
  /\ first = NotHeld

\* ------------------------------------------------------------------------
\* Actions
\* ------------------------------------------------------------------------
Init ==
  /\ now = 0
  /\ page \in Pages
  /\ initialized = FALSE
  /\ cache = [k \in {} |-> [data |-> NullData, timestamp |-> 0]]
  /\ pending = <<>>
  /\ display = [w \in 1..Len(page) |-> Initial]
  /\ timers = <<>>
  /\ refreshRuns = 0
  /\ pageErrors = 0
  /\ last = <<>>
  /\ refreshed = [w \in 1..Len(page) |-> Refreshed(Request(w, NaN, NaN, 0))]
  /\ first = NotHeld
  /\ NoUtilities

\* The DOMContentLoaded handler runs weather.init(): loadWeatherData(), then
\* setupPeriodicUpdates().
DOMContentLoaded ==
  /\ ~initialized
  /\ initialized' = TRUE
  /\ loadWeatherData
  /\ timers' = setupPeriodicUpdates(timers)
  /\ UNCHANGED <<now, page, cache, first>>
  /\ UNCHANGED utilVars

\* An interval timer comes due: its callback runs loadWeatherData().
IntervalTick ==
  \E k \in DOMAIN timers :
    /\ timers[k] = now
    /\ loadWeatherData
    /\ timers' = [timers EXCEPT ![k] = now + weatherUpdateInterval]
    /\ UNCHANGED <<now, page, initialized, cache, first>>
    /\ UNCHANGED utilVars

\* Time passes, up to the next instant a timer is due at.
Advance ==
  \E t \in TimePoints :
    /\ initialized
    /\ t > now
    /\ \A k \in DOMAIN timers : t <= timers[k]
    /\ now' = t
    /\ last' = <<>>
    /\ UNCHANGED <<page, initialized, cache, pending, display, timers,
                   refreshRuns, pageErrors, refreshed, first>>
    /\ UNCHANGED utilVars

\* A caller other than a widget calls fetchWeather(lat, lon) and keeps the
\* promise.
DirectGet ==
  \E c \in DirectCoords :
    LET r == Request(0, c[1], c[2], 0)
    IN  /\ Len(pending) + r.net <= MaxInFlight
        /\ pending' = pending \o StillPending(<<r>>)
        /\ last' = <<r>>
        /\ UNCHANGED <<now, page, initialized, cache, display, timers,
                       refreshRuns, pageErrors, refreshed, first>>
        /\ UNCHANGED utilVars

\* The caller of the call that has just resolved keeps the payload it resolved
\* with.
KeepResult ==
  \E i \in DOMAIN last :
    /\ last[i].caller = 0
    /\ last[i].promise.st = "fulfilled"
    /\ first' = [held |-> TRUE, key |-> last[i].key, issuedAt |-> last[i].issuedAt,
                 value |-> last[i].promise.val, overwritten |-> FALSE]
    /\ last' = <<>>
    /\ UNCHANGED <<now, page, initialized, cache, pending, display, timers,
                   refreshRuns, pageErrors, refreshed>>
    /\ UNCHANGED utilVars

\* The network call of pending call i ends with resp: the rest of fetchWeather's
\* chain runs (the parsed body is stored with the time of now and returned),
\* then the caller's chain.
Respond ==
  \E i \in DOMAIN pending, resp \in Responses :
    LET r0 == pending[i]
        p == fetchJson(resp)
        stored == p.st = "fulfilled"
        r1 == [r0 EXCEPT !.promise = p, !.hasResponse = TRUE, !.response = resp,
                         !.stored = stored]
        r2 == Settled(r1, IF r0.caller = 0 THEN Initial ELSE display[r0.caller])
        rest == [j \in 1..(Len(pending) - 1) |->
                   LET q == IF j < i THEN pending[j] ELSE pending[j + 1]
                   IN  IF stored /\ q.key = r0.key
                       THEN [q EXCEPT !.overlapped = TRUE,
                                      !.overtaken =
                                         @ \/ (j < i /\ FetchSucceeded(resp))]
                       ELSE q]
    IN  /\ cache' = IF stored
                    THEN cacheSet(cache, r0.key, [data |-> p.val, timestamp |-> now])
                    ELSE cache
        /\ pending' = rest
        /\ last' = <<r2>>
        /\ display' = IF r0.caller = 0 THEN display
                      ELSE [display EXCEPT ![r0.caller] = r2.left]
        /\ refreshed' = IF r0.caller = 0 THEN refreshed
                        ELSE [refreshed EXCEPT ![r0.caller] = Refreshed(r2)]
        /\ pageErrors' = pageErrors + (IF r2.chainSt = "rejected" THEN 1 ELSE 0)
        /\ first' = IF stored /\ first.held /\ first.key = r0.key
                    THEN [first EXCEPT !.overwritten = TRUE] ELSE first
        /\ UNCHANGED <<now, page, initialized, timers, refreshRuns>>
        /\ UNCHANGED utilVars

\* A script of the page inserts a weather widget after startup; the new element
\* shows its initial content.
AddWidget ==
  \E w \in LateWidgets :
    /\ initialized
    /\ \A v \in DOMAIN page : page[v] # w
    /\ page' = Append(page, w)
    /\ display' = Append(display, Initial)
    /\ refreshed' = Append(refreshed, Refreshed(Request(Len(page) + 1, NaN, NaN, 0)))
    /\ last' = <<>>
    /\ UNCHANGED <<now, initialized, cache, pending, timers, refreshRuns,
                   pageErrors, first>>
    /\ UNCHANGED utilVars

\* The page as deployed: its widgets are the only callers of fetchWeather.
Next ==
  \/ DOMContentLoaded
  \/ IntervalTick
  \/ Advance
  \/ Respond

Spec == Init /\ [][Next]_vars

\* The cache called directly: a page without widgets once DOMContentLoaded has
\* run init, on which other callers call fetchWeather and keep what it resolves
\* with.
InitGet ==
  /\ now = 0
  /\ page = NoWidgets
  /\ initialized = TRUE
  /\ cache = [k \in {} |-> [data |-> NullData, timestamp |-> 0]]
  /\ pending = <<>>
  /\ display = <<>>
  /\ timers = <<weatherUpdateInterval>>
  /\ refreshRuns = 1
  /\ pageErrors = 0
  /\ last = <<>>
  /\ refreshed = <<>>
  /\ first = NotHeld
  /\ NoUtilities

NextGet ==
  \/ IntervalTick
  \/ Advance
  \/ DirectGet
  \/ KeepResult
  \/ Respond

SpecGet == InitGet /\ [][NextGet]_vars

\* A page that gets a widget after startup.
InitPage ==
  /\ now = 0
  /\ page = StartPage
  /\ initialized = FALSE
  /\ cache = [k \in {} |-> [data |-> NullData, timestamp |-> 0]]
  /\ pending = <<>>
  /\ display = [w \in 1..Len(page) |-> Initial]
  /\ timers = <<>>
  /\ refreshRuns = 0
  /\ pageErrors = 0
  /\ last = <<>>
  /\ refreshed = [w \in 1..Len(page) |-> Refreshed(Request(w, NaN, NaN, 0))]
  /\ first = NotHeld
  /\ NoUtilities

NextPage ==
  \/ DOMContentLoaded
  \/ IntervalTick
  \/ Advance
  \/ Respond
  \/ AddWidget

SpecPage == InitPage /\ [][NextPage]_vars

\* Pages whose widgets' coordinates are written in different ways.
InitKey ==
  /\ now = 0
  /\ page \in KeyPages
  /\ initialized = FALSE
  /\ cache = [k \in {} |-> [data |-> NullData, timestamp |-> 0]]
  /\ pending = <<>>
  /\ display = [w \in 1..Len(page) |-> Initial]
  /\ timers = <<>>
  /\ refreshRuns = 0
  /\ pageErrors = 0
  /\ last = <<>>
  /\ refreshed = [w \in 1..Len(page) |-> Refreshed(Request(w, NaN, NaN, 0))]
  /\ first = NotHeld
  /\ NoUtilities

NextKey ==
  \/ DOMContentLoaded
  \/ IntervalTick
  \/ Advance
  \/ Respond

SpecKey == InitKey /\ [][NextKey]_vars

\* ------------------------------------------------------------------------
\* setTimeout and clearTimeout
\* ------------------------------------------------------------------------
\* Mutant of setTimeout: the callback is due at once.
setTimeout_NoDelay(ts, id, cb, arg, delay) ==
  ts \cup {[id |-> id, set |-> now, due |-> now, cb |-> cb, arg |-> arg]}

\* setTimeout(cb, delay): the callback cb, closed over arg, is registered under
\* the timer id and is due delay ms from now.
setTimeout(ts, id, cb, arg, delay) ==
  ts \cup {[id |-> id, set |-> now, due |-> now + delay, cb |-> cb, arg |-> arg]}

\* Mutant of clearTimeout: nothing is cancelled.
clearTimeout_Nothing(ts, id) == ts

\* clearTimeout(id): the timer of that id, if it is still to run, is cancelled.
clearTimeout(ts, id) == {x \in ts : x.id # id}

\* Time passes while a timer is waiting, up to the next instant a timer is due
\* at: to the millisecond after a timer was set, the millisecond before one is
\* due, or the instant one is due.
Elapse ==
  \E x \in timeouts :
    \E t \in {x.set + 1, x.due - 1, x.due} :
      /\ t > now
      /\ \A y \in timeouts : t <= y.due
      /\ now' = t
      /\ UNCHANGED weatherVars
      /\ UNCHANGED utilVars

\* Time passes until the next timer is due.
ElapseToDue ==
  \E x \in timeouts :
    /\ x.due > now
    /\ \A y \in timeouts : x.due <= y.due
    /\ now' = x.due
    /\ UNCHANGED weatherVars
    /\ UNCHANGED utilVars

\* ------------------------------------------------------------------------
\* utils.debounce(func, wait), as setupSearchDebouncing uses it: one debounced
\* function, wait = config.debounceDelay, called with the input event.
\* ------------------------------------------------------------------------
\* The arguments the debounced and the throttled function are called with.
Args == {"e1", "e2"}

InitDebounce ==
  /\ now = 0
  /\ NoWeather
  /\ timeouts = {}
  /\ timerIds = 0
  /\ timeout = 0
  /\ inThrottle = FALSE
  /\ submitting = <<>>
  /\ notifications = <<>>
  /\ container = <<>>
  /\ hist = [n |-> 0, burst |-> 0, lastAt |-> 0, lastArgs |-> "",
             inv |-> 0, invAt |-> 0, invArgs |-> ""]

\* executedFunction(...args): clearTimeout(timeout); timeout = setTimeout(later,
\* wait).  hist: a call that comes wait ms or more after the call before it
\* starts a new burst.
executedFunction ==
  \E args \in Args :
    LET id == timerIds + 1
        fresh == hist.n = 0 \/ now - hist.lastAt >= debounceDelay
    IN  /\ hist.n < MaxCalls
        /\ timeouts' = setTimeout(clearTimeout(timeouts, timeout), id, "later",
                                  args, debounceDelay)
        /\ timeout' = id
        /\ timerIds' = id
        /\ hist' = [hist EXCEPT !.n = @ + 1,
                                !.burst = IF fresh THEN 1 ELSE @ + 1,
                                !.inv = IF fresh THEN 0 ELSE @,
                                !.lastAt = now,
                                !.lastArgs = args]
        /\ UNCHANGED <<now, inThrottle, submitting, notifications, container>>
        /\ UNCHANGED weatherVars

\* The timer of a call comes due: later() runs clearTimeout(timeout), then
\* func(...args) with the arguments of the call that set the timer.
later ==
  \E x \in timeouts :
    /\ x.cb = "later"
    /\ x.due = now
    /\ timeouts' = clearTimeout(timeouts \ {x}, timeout)
    /\ hist' = [hist EXCEPT !.inv = @ + 1, !.invAt = now, !.invArgs = x.arg]
    /\ UNCHANGED <<now, timerIds, timeout, inThrottle, submitting, notifications,
                   container>>
    /\ UNCHANGED weatherVars

NextDebounce ==
  \/ executedFunction
  \/ later
  \/ Elapse

SpecDebounce == InitDebounce /\ [][NextDebounce]_vars

\* ------------------------------------------------------------------------
\* utils.throttle(func, limit), as setupBackToTop uses it: one throttled scroll
\* listener.
\* ------------------------------------------------------------------------
InitThrottle ==
  /\ now = 0
  /\ NoWeather
  /\ timeouts = {}
  /\ timerIds = 0
  /\ timeout = 0
  /\ inThrottle = FALSE
  /\ submitting = <<>>
  /\ notifications = <<>>
  /\ container = <<>>
  /\ hist = [n |-> 0, inv |-> 0, firstInvoked |-> FALSE, callAt |-> 0,
             invoked |-> FALSE, invAt |-> 0, prevInvAt |-> 0, invArgs |-> "",
             callArgs |-> ""]

\* The throttled function is called: if (!inThrottle) { func.apply(context,
\* args); inThrottle = true; setTimeout(() => inThrottle = false, limit); }.
\* hist: the last call, whether it invoked func, and the times of the last
\* invocation and of the one before the last call.
throttled ==
  \E args \in Args :
    LET id == timerIds + 1
        h == [hist EXCEPT !.n = @ + 1, !.callAt = now, !.callArgs = args,
                          !.prevInvAt = hist.invAt]
    IN  /\ hist.n < MaxCalls
        /\ IF ~inThrottle
           THEN /\ hist' = [h EXCEPT !.inv = @ + 1, !.invoked = TRUE,
                                     !.invAt = now, !.invArgs = args,
                                     !.firstInvoked = (hist.n = 0) \/ @]
                /\ inThrottle' = TRUE
                /\ timeouts' = setTimeout(timeouts, id, "release", "", scrollLimit)
                /\ timerIds' = id
           ELSE /\ hist' = [h EXCEPT !.invoked = FALSE]
                /\ UNCHANGED <<inThrottle, timeouts, timerIds>>
        /\ UNCHANGED <<now, timeout, submitting, notifications, container>>
        /\ UNCHANGED weatherVars

\* The timer of an invoking call comes due: inThrottle = false.
releaseThrottle ==
  \E x \in timeouts :
    /\ x.cb = "release"
    /\ x.due = now
    /\ timeouts' = timeouts \ {x}
    /\ inThrottle' = FALSE
    /\ UNCHANGED <<now, timerIds, timeout, submitting, notifications, container,
                   hist>>
    /\ UNCHANGED weatherVars

NextThrottle ==
  \/ throttled
  \/ releaseThrottle
  \/ Elapse

SpecThrottle == InitThrottle /\ [][NextThrottle]_vars

\* ------------------------------------------------------------------------
\* formValidation.setupFormSubmission: the submit listener on the document.
\* The page stays loaded after a submission that was let through (the form
\* targets another window, or another listener takes the submission over).
\* ------------------------------------------------------------------------
\* The forms of the page: one with a submit button, one without (submitted by
\* the Enter key or by requestSubmit()).
Forms == <<[submitBtn |-> TRUE], [submitBtn |-> FALSE]>>

InitForm ==
  /\ now = 0
  /\ NoWeather
  /\ timeouts = {}
  /\ timerIds = 0
  /\ timeout = 0
  /\ inThrottle = FALSE
  /\ submitting = [f \in DOMAIN Forms |-> "undefined"]
  /\ notifications = <<>>
  /\ container = <<>>
  /\ hist = [n |-> 0, form |-> 0, prevented |-> FALSE, flagBefore |-> "undefined",
             passed |-> [f \in DOMAIN Forms |-> 0],
             setAt |-> [f \in DOMAIN Forms |-> 0]]

\* Mutant of isSubmitting: the flag is never found set.
isSubmitting_Never(flag) == FALSE

\* form.dataset.submitting === 'true'
isSubmitting(flag) == flag = "true"

\* A submit event on form f reaches the listener: a form that is submitting has
\* the event prevented; otherwise the flag is set and, if the form has a submit
\* button, the button is disabled and a timer is set that resets the flag.
\* hist: the last event, and per form when the flag was set and how many events
\* were let through since the flag was last reset.
submitListener ==
  \E f \in DOMAIN Forms :
    LET id == timerIds + 1
        h == [hist EXCEPT !.n = @ + 1, !.form = f, !.flagBefore = submitting[f]]
    IN  /\ hist.n < MaxCalls
        /\ IF isSubmitting(submitting[f])
           THEN /\ hist' = [h EXCEPT !.prevented = TRUE]
                /\ UNCHANGED <<submitting, timeouts, timerIds>>
           ELSE /\ hist' = [h EXCEPT !.prevented = FALSE,
                                     !.passed[f] = @ + 1,
                                     !.setAt[f] = now]
                /\ submitting' = [submitting EXCEPT ![f] = "true"]
                /\ IF Forms[f].submitBtn
                   THEN /\ timeouts' = setTimeout(timeouts, id, "reset", f,
                                                  submitResetDelay)
                        /\ timerIds' = id
                   ELSE UNCHANGED <<timeouts, timerIds>>
        /\ UNCHANGED <<now, timeout, inThrottle, notifications, container>>
        /\ UNCHANGED weatherVars

\* The reset timer of a form comes due: form.dataset.submitting = 'false', and
\* the button is enabled again.
resetSubmitting ==
  \E x \in timeouts :
    /\ x.cb = "reset"
    /\ x.due = now
    /\ timeouts' = timeouts \ {x}
    /\ submitting' = [submitting EXCEPT ![x.arg] = "false"]
    /\ hist' = [hist EXCEPT !.passed[x.arg] = 0]
    /\ UNCHANGED <<now, timerIds, timeout, inThrottle, notifications, container>>
    /\ UNCHANGED weatherVars

NextForm ==
  \/ submitListener
  \/ resetSubmitting
  \/ Elapse

SpecForm == InitForm /\ [][NextForm]_vars

\* ------------------------------------------------------------------------
\* notifications.show and notifications.hide, the container being set up.
\* ------------------------------------------------------------------------
\* The durations show is called with: none (the notification stays until it is
\* closed) and the default.
Durations == {0, defaultDuration}

\* The ids the notifications shown can have.
NotificationIds == 1..MaxCalls

InitNotify ==
  /\ now = 0
  /\ NoWeather
  /\ timeouts = {}
  /\ timerIds = 0
  /\ timeout = 0
  /\ inThrottle = FALSE
  /\ submitting = <<>>
  /\ notifications = <<>>
  /\ container = <<>>
  /\ hist = [n |-> 0, ops |-> 0, op |-> "none", id |-> 0, byTimer |-> FALSE,
             shown |-> 0, auto |-> {}]

\* utils.generateId(): Math.random().toString(36).substr(2, 9).  The ids of
\* different notifications are taken to be different; they are numbered in the
\* order of the calls.
generateId == hist.shown + 1

\* Mutant of withoutId: the records are all kept.
withoutId_Keep(ns, id) == ns

\* state.notifications.filter(n => n.id !== id)
withoutId(ns, id) == SelectSeq(ns, LAMBDA n : n.id # id)

\* show(message, type, duration): the element is appended to the container with
\* the class 'show', the auto-hide timer is set if duration > 0, and the record
\* is pushed on state.notifications.
show ==
  \E duration \in Durations :
    LET id == generateId
        tid == timerIds + 1
    IN  /\ hist.n < MaxCalls
        /\ container' = [i \in (DOMAIN container) \cup {id} |->
                           IF i = id THEN "show" ELSE container[i]]
        /\ IF duration > 0
           THEN /\ timeouts' = setTimeout(timeouts, tid, "hide", id, duration)
                /\ timerIds' = tid
           ELSE UNCHANGED <<timeouts, timerIds>>
        /\ notifications' = Append(notifications, [id |-> id, timestamp |-> now])
        /\ hist' = [hist EXCEPT !.n = @ + 1, !.ops = @ + 1, !.op = "show",
                                !.id = id, !.byTimer = FALSE, !.shown = @ + 1,
                                !.auto = IF duration > 0 THEN @ \cup {id} ELSE @]
        /\ UNCHANGED <<now, timeout, inThrottle, submitting>>
        /\ UNCHANGED weatherVars

\* The body of hide(id): if the element is in the document its class 'show' is
\* removed and a timer is set to take it out of the container; the records of
\* that id are filtered out of state.notifications.
hideBody(id, ts, byTimer) ==
  LET tid == timerIds + 1
  IN  /\ IF id \in DOMAIN container
         THEN /\ container' = [container EXCEPT ![id] = "hiding"]
              /\ timeouts' = setTimeout(ts, tid, "remove", id, removeDelay)
              /\ timerIds' = tid
         ELSE /\ timeouts' = ts
              /\ UNCHANGED <<container, timerIds>>
      /\ notifications' = withoutId(notifications, id)
      /\ hist' = [hist EXCEPT !.n = IF byTimer THEN @ ELSE @ + 1,
                              !.ops = @ + 1, !.op = "hide", !.id = id,
                              !.byTimer = byTimer]
      /\ UNCHANGED <<now, timeout, inThrottle, submitting>>
      /\ UNCHANGED weatherVars

\* hide(id) is called: by the close button of a notification, or by a script
\* with the id of a notification shown before or with an id of no notification.
hide ==
  \E id \in 1..(hist.shown + 1) :
    /\ hist.n < MaxCalls
    /\ hideBody(id, timeouts, FALSE)

\* The auto-hide timer of a notification comes due: this.hide(id).
autoHide ==
  \E x \in timeouts :
    /\ x.cb = "hide"
    /\ x.due = now
    /\ hideBody(x.arg, timeouts \ {x}, TRUE)

\* The timer hide has set comes due: the element is taken out of the container
\* if it is still in it.
removeElement ==
  \E x \in timeouts :
    /\ x.cb = "remove"
    /\ x.due = now
    /\ timeouts' = timeouts \ {x}
    /\ container' = [i \in (DOMAIN container) \ {x.arg} |-> container[i]]
    /\ UNCHANGED <<now, timerIds, timeout, inThrottle, submitting, notifications,
                   hist>>
    /\ UNCHANGED weatherVars

NextNotify ==
  \/ show
  \/ hide
  \/ autoHide
  \/ removeElement
  \/ ElapseToDue

\* Time does not stop while a timer is waiting, and a timer that is due runs.
SpecNotify ==
  /\ InitNotify
  /\ [][NextNotify]_vars
  /\ WF_vars(ElapseToDue)
  /\ WF_vars(autoHide)
  /\ WF_vars(removeElement)

\* ------------------------------------------------------------------------
\* Properties
\* ------------------------------------------------------------------------
\* The calls of fetchWeather the last step made (they returned at `now`, with
\* the cache as it is), and the calls whose network call the last step ended.
JustCalled == {i \in DOMAIN last : ~last[i].hasResponse}
JustAnswered == {i \in DOMAIN last : last[i].hasResponse}

\* The key has an entry that is younger than 300,000 ms now.
FreshNow(key) == key \in DOMAIN cache /\ now - cache[key].timestamp < 300000

\* C1, as stated: a get called again for the same coordinate less than 300,000 ms
\* after a get that resolved issues no network call and resolves with the
\* payload the first get resolved with.
C1_CacheHitAsStated ==
  \A i \in JustCalled :
    LET r == last[i]
    IN  (r.caller = 0 /\ first.held /\ first.key = r.key
           /\ r.issuedAt - first.issuedAt < 300000)
        => (r.net = 0 /\ r.promise = Fulfilled(first.value))

\* C1, amended: a get called for the coordinate of a get that resolved, while the
\* cache entry is younger than 300,000 ms, issues no network call and resolves
\* with the entry's payload; that is the payload the first get resolved with
\* unless a response to another request for the coordinate was stored in between.
C1_CacheHit ==
  \A i \in JustCalled :
    LET r == last[i]
    IN  (r.caller = 0 /\ first.held /\ first.key = r.key /\ FreshNow(r.key))
        => /\ r.net = 0
           /\ r.promise = Fulfilled(cache[r.key].data)
           /\ (~first.overwritten => r.promise.val = first.value)

\* C1, witness: a second get, at a later instant than the first, is served the
\* first get's WeatherPayload from the cache with no network call.
C1_Witness ==
  \E i \in JustCalled :
    /\ last[i].caller = 0 /\ first.held /\ first.key = last[i].key
    /\ ~first.overwritten
    /\ last[i].issuedAt > first.issuedAt
    /\ FreshNow(last[i].key)
    /\ last[i].net = 0
    /\ last[i].promise = Fulfilled(first.value)
    /\ first.value.current # 0

\* C2: a call of fetchWeather issues a network call, and is not resolved with
\* the entry, exactly when the key has no entry or the entry's age is 300,000 ms
\* or more; and a call that issued a network call resolves with the body of its
\* own response.
C2_CacheExpiry ==
  /\ \A i \in JustCalled :
       /\ last[i].net = (IF FreshNow(last[i].key) THEN 0 ELSE 1)
       /\ (last[i].promise.st = "pending") = ~FreshNow(last[i].key)
  /\ \A i \in JustAnswered :
       /\ last[i].net = 1
       /\ (last[i].promise.st = "fulfilled"
             => last[i].promise.val = last[i].response.data)

\* C2, witness: a get finds an entry whose age is exactly 300,000 ms and issues
\* one network call.
C2_Witness ==
  \E i \in JustCalled :
    /\ last[i].key \in DOMAIN cache
    /\ now - cache[last[i].key].timestamp = 300000
    /\ last[i].net = 1
    /\ last[i].promise.st = "pending"

\* C3: a get whose network call fails, or whose response has a non-success
\* status, rejects.
C3_RejectsOnFailure ==
  \A i \in JustAnswered :
    FetchFailed(last[i].response) => last[i].promise.st = "rejected"

\* The keys of two widgets of the page.
widgetKey(w) == cacheKey(widgetLat(w), widgetLon(w))

\* C4: when, in one run of loadWeatherData over two widgets with different
\* coordinates, the fetch of one failed and the fetch of the other succeeded,
\* the first shows 'Weather data unavailable' and the second its payload.
C4_IndependentFailure ==
  \A a \in DOMAIN page, b \in DOMAIN page :
    (/\ widgetKey(a) # widgetKey(b)
     /\ refreshed[a].run = refreshed[b].run
     /\ refreshed[a].fetch = "failed"
     /\ refreshed[b].fetch = "succeeded")
    => (display[a] = Unavailable /\ display[b] = Weather(refreshed[b].current))

\* The refresh of a widget failed: its network call failed, its response had a
\* non-success status or a body that is not JSON, or renderWeather threw.
RefreshFailed(r) ==
  \/ (r.hasResponse /\ (FetchFailed(r.response) \/ ~r.response.json))
  \/ r.renderThrew

\* C5: every failed refresh of a widget leaves the widget showing 'Weather data
\* unavailable', and no error or unhandled rejection reaches the page.
C5_ErrorContainment ==
  /\ pageErrors = 0
  /\ \A i \in DOMAIN last :
       (last[i].caller # 0 /\ last[i].promise.st # "pending" /\ RefreshFailed(last[i]))
       => (last[i].left = Unavailable /\ display[last[i].caller] = Unavailable)

\* C6: renderWeather never throws, and leaves the fallback for a payload that is
\* null, carries an error marker or has no `current` field.
C6_RenderNeverThrows ==
  \A i \in DOMAIN last :
    LET r == last[i]
    IN  /\ ~r.renderThrew
        /\ (r.caller # 0 /\ r.promise.st = "fulfilled"
              /\ (r.promise.val.null \/ r.promise.val.error
                    \/ r.promise.val.current = 0))
           => r.left = Unavailable

\* C7: loadWeatherData has run once at startup and once more for every interval
\* tick that has passed: by the instant `now` it has run for every tick before
\* `now`, and at most once more for a tick due exactly at `now`.
C7_PeriodicRefresh ==
  /\ ~initialized => refreshRuns = 0
  /\ initialized =>
       /\ refreshRuns >= 1
       /\ refreshRuns >= 1 + ((now - 1) \div 300000)
       /\ refreshRuns <= 1 + (now \div 300000)

\* C7, witness: the refresh of the first tick has run while a fetch of the
\* startup refresh is still in flight.
C7_Witness ==
  /\ refreshRuns = 2
  /\ now = 300000
  /\ \E i \in DOMAIN pending : pending[i].run = 1

\* C8, as stated: two refreshes of one widget are never in flight together.
C8_NeverTwoInFlight ==
  \A i \in DOMAIN pending, j \in DOMAIN pending :
    (i < j /\ pending[i].caller # 0) => pending[i].caller # pending[j].caller

\* C8, amended: two refreshes of one widget are in flight together only when
\* the earlier one has been in flight for 300,000 ms or more.
C8_OverlapOnlyPastInterval ==
  \A i \in DOMAIN pending, j \in DOMAIN pending :
    (i < j /\ pending[i].caller # 0 /\ pending[i].caller = pending[j].caller)
    => pending[j].issuedAt - pending[i].issuedAt >= 300000

\* C8, witness: a widget's refresh of the first tick is in flight together with
\* its startup refresh.
C8_Witness ==
  \E i \in DOMAIN pending, j \in DOMAIN pending :
    /\ i < j /\ pending[i].caller # 0 /\ pending[i].caller = pending[j].caller
    /\ pending[i].run = 1 /\ pending[j].run = 2

\* C9: two gets for one key that are in flight together have each issued a
\* network call, and a response that is stored replaces the entry: once both
\* have succeeded the entry holds the payload of the response processed last.
C9_ConcurrentMisses ==
  /\ \A i \in DOMAIN pending, j \in DOMAIN pending :
       (i < j /\ pending[i].key = pending[j].key)
       => (pending[i].net = 1 /\ pending[j].net = 1)
  /\ \A i \in JustAnswered :
       /\ last[i].net = 1
       /\ last[i].stored
          => cache[last[i].key] = [data |-> last[i].response.data, timestamp |-> now]

\* C9, witness: of two gets in flight together the first resolved with one
\* payload and the second's response, processed later, has put another payload
\* in the entry.
C9_Witness ==
  \E i \in JustAnswered :
    /\ last[i].overlapped /\ last[i].stored
    /\ first.held /\ first.key = last[i].key /\ first.overwritten
    /\ first.value.current # 0 /\ last[i].response.data.current # 0
    /\ first.value # last[i].response.data
    /\ cache[last[i].key].data = last[i].response.data

\* C10: a get whose network call fails, whose response has a non-success status
\* or whose body is not JSON leaves the cache as it was.
C10_OnlySuccessStores ==
  [][(\E i \in DOMAIN last' :
        /\ last'[i].hasResponse
        /\ (FetchFailed(last'[i].response) \/ ~last'[i].response.json))
     => cache' = cache]_vars

\* C11: every periodic refresh (a run of loadWeatherData after the startup run)
\* of a widget whose key has a cache entry, once it has succeeded, has fetched a
\* response and put its payload in the entry with the time of now.
C11_RefreshOverwrites ==
  \A i \in DOMAIN last :
    LET r == last[i]
    IN  (r.caller # 0 /\ r.run >= 2 /\ r.key \in DOMAIN cache
           /\ r.promise.st = "fulfilled")
        => /\ r.hasResponse
           /\ r.stored
           /\ cache[r.key] = [data |-> r.response.data, timestamp |-> now]

\* C12: no step removes a key from the cache; an entry changes only in the step
\* that stores a response for its key, and a step in which the clock advances
\* leaves the cache as it is.
C12_NeverEvicted ==
  [][/\ DOMAIN cache \subseteq DOMAIN cache'
     /\ \A k \in DOMAIN cache :
          cache'[k] # cache[k]
          => \E i \in DOMAIN last' :
               last'[i].hasResponse /\ last'[i].stored /\ last'[i].key = k
     /\ (now' # now => cache' = cache)]_vars

\* C12, witness: an entry that is 300,000 ms old or older is still in the cache
\* after a fetch for its key has failed, next to the entry of another key.
C12_Witness ==
  \E i \in JustAnswered :
    /\ ~last[i].stored
    /\ last[i].key \in DOMAIN cache
    /\ now - cache[last[i].key].timestamp >= 300000
    /\ Cardinality(DOMAIN cache) >= 2

\* The widgets that were added to the page after startup.
LateWidget(w) == w > Len(StartPage)

\* C13, as stated: no widget added after startup is ever fetched for or rendered.
C13_FixedAtInit ==
  /\ \A i \in DOMAIN pending : ~LateWidget(pending[i].caller)
  /\ \A i \in DOMAIN last : ~LateWidget(last[i].caller)
  /\ \A w \in DOMAIN page : LateWidget(w) => display[w] = Initial

\* C13, amended: every run of loadWeatherData reads the widgets off the page
\* anew.  A widget added after startup is neither fetched for nor rendered
\* before the next interval tick, and the refresh of that tick and of every
\* later one makes one call of fetchWeather for each widget on the page, the
\* added one included.
C13_PickedUpAtNextTick ==
  /\ \A w \in DOMAIN page : refreshed[w].run = 0 => display[w] = Initial
  /\ \A i \in DOMAIN pending : LateWidget(pending[i].caller) => pending[i].run >= 2
  /\ \A i \in DOMAIN last : LateWidget(last[i].caller) => last[i].run >= 2
  /\ (last # <<>> /\ \A i \in DOMAIN last : ~last[i].hasResponse /\ last[i].caller # 0)
     => /\ Len(last) = Len(page)
        /\ \A i \in DOMAIN last : last[i].caller = i

\* C13, witness: a widget added after startup shows the payload that the refresh
\* of an interval tick fetched for it.
C13_Witness ==
  \E i \in JustAnswered :
    /\ LateWidget(last[i].caller)
    /\ last[i].run >= 2
    /\ FetchSucceeded(last[i].response)
    /\ display[last[i].caller] = Weather(last[i].response.data.current)

\* Both coordinates of a call, or of a widget, are numbers.
FiniteCall(r) == ~r.lat.nan /\ ~r.lon.nan
FiniteWidget(w) == ~widgetLat(w).nan /\ ~widgetLon(w).nan

\* The calls of fetchWeather that are in flight or were made or settled by the
\* last step.
KnownCalls == {pending[i] : i \in DOMAIN pending} \cup {last[i] : i \in DOMAIN last}

\* C14: two calls of fetchWeather have the same key exactly when their numeric
\* coordinates are equal, two widgets have the same key exactly when their
\* attributes parse to equal numbers, every entry is under the key of a call's
\* coordinates, and a call that is served from the cache is served the entry of
\* its own key.
C14_KeyStability ==
  /\ \A r \in KnownCalls, q \in KnownCalls :
       (FiniteCall(r) /\ FiniteCall(q))
       => ((r.lat = q.lat /\ r.lon = q.lon) <=> (r.key = q.key))
  /\ \A a \in DOMAIN page, b \in DOMAIN page :
       (FiniteWidget(a) /\ FiniteWidget(b))
       => ((widgetLat(a) = widgetLat(b) /\ widgetLon(a) = widgetLon(b))
             <=> (widgetKey(a) = widgetKey(b)))
  /\ \A k \in DOMAIN cache : \E w \in DOMAIN page : k = widgetKey(w)
  /\ \A i \in JustCalled :
       last[i].promise.st = "fulfilled"
       => last[i].promise.val = cache[widgetKey(last[i].caller)].data

\* C14, witness: two widgets whose attributes are written differently and parse
\* to equal numbers are both served, at the interval tick, the payload of the
\* one entry the cache has.
C14_Witness ==
  /\ Len(last) = 2
  /\ page[1] # page[2]
  /\ FiniteWidget(1)
  /\ Cardinality(DOMAIN cache) = 1
  /\ \A i \in DOMAIN last :
       /\ last[i].run = 2 /\ ~last[i].hasResponse
       /\ last[i].promise.st = "fulfilled"
       /\ last[i].promise.val.current # 0

\* C15: once the payload of a call of fetchWeather has been stored, the payload
\* of a call made earlier for the same key, in flight together with it, does
\* not replace it in the cache when its fetch succeeds afterwards.
C15_NoStaleOverwrite ==
  \A i \in JustAnswered :
    (last[i].overtaken /\ FetchSucceeded(last[i].response)) => ~last[i].stored

C17_Throttle ==
  /\ hist.n >= 1 => hist.firstInvoked
  /\ (hist.n >= 1 /\ hist.inv >= (IF hist.invoked THEN 2 ELSE 1)
        /\ hist.callAt - hist.prevInvAt < 100)
     => ~hist.invoked
  /\ (hist.invoked /\ hist.inv >= 2) => hist.invAt - hist.prevInvAt >= 100
  /\ hist.inv <= hist.n
  /\ Cardinality(timeouts) <= 1
  /\ \A x \in timeouts : x.cb = "release" /\ x.set = hist.invAt /\ inThrottle

\* C17, witness: a call 99 ms after an invocation was dropped, and a later call,
\* 100 ms after that invocation, has invoked func.
C17_Witness ==
  /\ hist.n >= 3
  /\ hist.invoked
  /\ hist.inv = 2
  /\ hist.invAt - hist.prevInvAt = 100

\* C18: a submit event on a form whose submitting flag is 'true' is prevented,
\* and between two resets of a form's flag at most one submit event of the form
\* is let through, the flag being 'true' from then on.
C18_DoubleSubmitGuard ==
  /\ (hist.form # 0 /\ hist.flagBefore = "true") => hist.prevented
  /\ \A f \in DOMAIN Forms :
       /\ hist.passed[f] <= 1
       /\ hist.passed[f] = 1 => submitting[f] = "true"

\* C18, witness: a submit event on the form with a submit button was prevented,
\* some time after the event that was let through.
C18_Witness ==
  /\ hist.form = 1
  /\ hist.prevented
  /\ hist.passed[1] = 1
  /\ now > hist.setAt[1]
  /\ now < hist.setAt[1] + 5000

\* C19: a form whose submitting flag is 'true', with or without a submit button,
\* has a timer set that resets the flag 5000 ms after the flag was set.
C19_GuardReleases ==
  \A f \in DOMAIN Forms :
    submitting[f] = "true"
    => \E x \in timeouts :
         x.cb = "reset" /\ x.arg = f /\ x.due = hist.setAt[f] + 5000

\* The ids of the records in state.notifications, and the ids of the
\* notifications that were shown and have not been hidden (their elements have
\* the class 'show').
RecordIds == {notifications[i].id : i \in DOMAIN notifications}
ShowingIds == {id \in DOMAIN container : container[id] = "show"}

\* C20: state.notifications holds one record, and no more, for each notification
\* that was shown and has not been hidden; a hide(id) for an id without a record
\* leaves the records and the elements as they are; and a notification shown
\* with duration > 0 is in the end removed from state.notifications.
C20_Bookkeeping ==
  /\ [](/\ RecordIds = ShowingIds
        /\ Len(notifications) = Cardinality(RecordIds))
  /\ [][(hist'.ops = hist.ops + 1 /\ hist'.op = "hide" /\ hist'.id \notin RecordIds)
        => (notifications' = notifications /\ container' = container)]_vars
  /\ \A id \in NotificationIds :
       (id \in RecordIds /\ id \in hist.auto) ~> (id \notin RecordIds)

\* C20, witness: the timer of a notification shown with the default duration has
\* hidden it 5000 ms after it was shown, while a notification shown without a
\* duration still has its record.
C20_Witness ==
  /\ hist.op = "hide"
  /\ hist.byTimer
  /\ hist.id \in hist.auto
  /\ hist.id \notin RecordIds
  /\ now >= 5000
  /\ Len(notifications) >= 1
  /\ RecordIds \cap hist.auto = {}

====
